---- MODULE Spec2Model ----
(***************************************************************************)
(* BlackRoad Deal Flow (src/deal_flow.py): the four tables of the SQLite   *)
(* store and the functions that read and write them.                       *)
(*                                                                         *)
(* Every function opens a connection, runs its statements inside one       *)
(* implicit transaction and commits once, so a call is one atomic step.    *)
(* The runs of two connections take the calls statement by statement, with *)
(* the tables as the committed rows of the store and conns as the calls in *)
(* progress on the connections.                                            *)
(* A function is modelled as an operator that maps the current tables and  *)
(* the call's arguments to an outcome: the tables after the call, the      *)
(* exception raised ("none" when it returns) and the value returned.       *)
(*                                                                         *)
(* Text (notes, reason) is a sequence of chunks, so that SQL's || and the  *)
(* f-string of pass_deal are sequence concatenation; "" is << >>.          *)
(* uuid4 keys are modelled by the row's position in its table; a deal_id   *)
(* is the deal's index in deals.  Timestamps and the columns no function   *)
(* of the model reads (lead_investor, co_investors, assigned_to, website,  *)
(* founder, contact_email, findings, reviewer) are left out.  Failures of  *)
(* the store itself (a locked or unreadable database file) are not         *)
(* modelled.                                                               *)
(***************************************************************************)
EXTENDS Integers, Sequences, FiniteSets, TLC

VARIABLES deals, due_diligence, stage_changes, interactions, last, conns

vars == <<deals, due_diligence, stage_changes, interactions, last, conns>>

----------------------------------------------------------------------------
(* Bounds of the model *)

(* rows in the four tables together, in the lifecycle runs *)
MaxRows == 3
(* reports of the deal, in the scoring runs *)
MaxScoreReports == 3

(* stage changes of a scoring run with stage changes *)
MaxScoreChanges == 1
(* rows in the four tables together, the rows the calls in progress are
   about to write included, in the runs of two connections *)
MaxConnRows == 4

----------------------------------------------------------------------------
(* Enumerations *)

DealStage == {"awareness", "first_meeting", "deep_dive", "term_sheet",
              "due_diligence", "closing", "portfolio", "passed"}

DDCategory == {"legal", "financial", "technical", "market", "team"}

DDStatus == {"not_started", "in_progress", "complete", "blocked"}

STAGE_ORDER == <<"awareness", "first_meeting", "deep_dive", "term_sheet",
                 "due_diligence", "closing", "portfolio">>

(* The exceptions a call ends with.  ValueError("Deal ... not found") is the
   spec's NotFoundError, ValueError("Rating must be ...") its ValidationError;
   sqlite3.IntegrityError is what the store raises on a FOREIGN KEY violation. *)
NotFound == "ValueError: not found"
Validation == "ValueError: validation"
Integrity == "sqlite3.IntegrityError"
NoError == "none"

(* None: the call returned nothing the model keeps *)
NoRet == "None"

----------------------------------------------------------------------------
(* Helpers *)

Min(a, b) == IF a < b THEN a ELSE b
Max(a, b) == IF a > b THEN a ELSE b

RECURSIVE SumSeq(_)
SumSeq(s) == IF s = << >> THEN 0 ELSE Head(s) + SumSeq(Tail(s))

(* json.dumps of a list, and json.loads of the stored text *)
json_dumps(list) == [json |-> list]
json_loads(text) == text.json

(* SELECT ... FROM deals WHERE deal_id=? : the row exists *)
DealExists(deal_id) == deal_id \in DOMAIN deals

(* SELECT * FROM <table> WHERE deal_id=? *)
RowsOf(table, deal_id) == SelectSeq(table, LAMBDA r : r.deal_id = deal_id)

(* What a call leaves behind and gives back *)
Outcome(d, dd, sc, ia, err, ret) ==
    [deals |-> d, due_diligence |-> dd, stage_changes |-> sc,
     interactions |-> ia, err |-> err, ret |-> ret]

(* conn.close(); raise ... : nothing was written *)
Raise(err) ==
    Outcome(deals, due_diligence, stage_changes, interactions, err, NoRet)

----------------------------------------------------------------------------
(* add_deal: no argument is validated; the row is inserted as given and the
   Deal object is returned *)

(* Deal(...): stage and score take the dataclass defaults *)
(* the positional INSERT with valuation in the score column *)
Deal_score_column_shifted(company, sector, raise_amount, valuation, notes) ==
    [company |-> company, sector |-> sector, raise_amount |-> raise_amount,
     valuation |-> valuation, stage |-> "awareness", score |-> valuation,
     notes |-> notes]

Deal(company, sector, raise_amount, valuation, notes) ==
    [company |-> company, sector |-> sector, raise_amount |-> raise_amount,
     valuation |-> valuation, stage |-> "awareness", score |-> 0,
     notes |-> notes]

add_deal(company, sector, raise_amount, valuation, notes) ==
    LET deal == Deal(company, sector, raise_amount, valuation, notes)
    IN  Outcome(Append(deals, deal), due_diligence, stage_changes,
                interactions, NoError,
                [deal_id |-> Len(deals) + 1, deal |-> deal])

----------------------------------------------------------------------------
(* advance_stage *)

(* advance_stage reading old_stage after the UPDATE *)
advance_stage_old_after_update(deal_id, new_stage, changed_by, reason) ==
    IF ~DealExists(deal_id) THEN Raise(NotFound)
    ELSE
      LET change == [deal_id |-> deal_id, old_stage |-> new_stage,
                     new_stage |-> new_stage, changed_by |-> changed_by,
                     reason |-> reason]
      IN  Outcome([deals EXCEPT ![deal_id].stage = new_stage],
                  due_diligence, Append(stage_changes, change),
                  interactions, NoError, NoRet)

(* advance_stage accepting only the next stage of STAGE_ORDER *)
advance_stage_next_only(deal_id, new_stage, changed_by, reason) ==
    IF ~DealExists(deal_id) THEN Raise(NotFound)
    ELSE IF ~(\E i \in 1..(Len(STAGE_ORDER) - 1) :
                /\ STAGE_ORDER[i] = deals[deal_id].stage
                /\ STAGE_ORDER[i + 1] = new_stage)
    THEN Raise(Validation)
    ELSE
      LET change == [deal_id |-> deal_id,
                     old_stage |-> deals[deal_id].stage,
                     new_stage |-> new_stage, changed_by |-> changed_by,
                     reason |-> reason]
      IN  Outcome([deals EXCEPT ![deal_id].stage = new_stage],
                  due_diligence, Append(stage_changes, change),
                  interactions, NoError, NoRet)

(* advance_stage returning early, unlogged, when the deal is in new_stage *)
advance_stage_same_stage_silent(deal_id, new_stage, changed_by, reason) ==
    IF ~DealExists(deal_id) THEN Raise(NotFound)
    ELSE IF deals[deal_id].stage = new_stage
    THEN Outcome(deals, due_diligence, stage_changes, interactions,
                 NoError, NoRet)
    ELSE
      LET old_stage == deals[deal_id].stage
          change == [deal_id |-> deal_id, old_stage |-> old_stage,
                     new_stage |-> new_stage, changed_by |-> changed_by,
                     reason |-> reason]
      IN  Outcome([deals EXCEPT ![deal_id].stage = new_stage],
                  due_diligence, Append(stage_changes, change),
                  interactions, NoError, NoRet)

advance_stage(deal_id, new_stage, changed_by, reason) ==
    IF ~DealExists(deal_id) THEN Raise(NotFound)
    ELSE
      LET old_stage == deals[deal_id].stage
          change == [deal_id |-> deal_id, old_stage |-> old_stage,
                     new_stage |-> new_stage, changed_by |-> changed_by,
                     reason |-> reason]
      IN  Outcome([deals EXCEPT ![deal_id].stage = new_stage],
                  due_diligence, Append(stage_changes, change),
                  interactions, NoError, NoRet)

----------------------------------------------------------------------------
(* add_due_diligence; red_flags is a list ("red_flags or []" is then the
   list itself) *)

(* add_due_diligence letting the dataclass default rating 0 through *)
add_due_diligence_from_zero(deal_id, category, red_flags, rating) ==
    IF ~DealExists(deal_id) THEN Raise(NotFound)
    ELSE IF ~(0 <= rating /\ rating <= 5) THEN Raise(Validation)
    ELSE
      LET dd == [deal_id |-> deal_id, category |-> category,
                 status |-> "complete", red_flags |-> json_dumps(red_flags),
                 rating |-> rating]
      IN  Outcome(deals, Append(due_diligence, dd), stage_changes,
                  interactions, NoError, Len(due_diligence) + 1)

(* add_due_diligence moving the deal to the due_diligence stage *)
add_due_diligence_moves_stage(deal_id, category, red_flags, rating) ==
    IF ~DealExists(deal_id) THEN Raise(NotFound)
    ELSE IF ~(1 <= rating /\ rating <= 5) THEN Raise(Validation)
    ELSE
      LET dd == [deal_id |-> deal_id, category |-> category,
                 status |-> "complete", red_flags |-> json_dumps(red_flags),
                 rating |-> rating]
      IN  Outcome([deals EXCEPT ![deal_id].stage = "due_diligence"],
                  Append(due_diligence, dd), stage_changes,
                  interactions, NoError, Len(due_diligence) + 1)

(* add_due_diligence storing the dataclass default status *)
add_due_diligence_default_status(deal_id, category, red_flags, rating) ==
    IF ~DealExists(deal_id) THEN Raise(NotFound)
    ELSE IF ~(1 <= rating /\ rating <= 5) THEN Raise(Validation)
    ELSE
      LET dd == [deal_id |-> deal_id, category |-> category,
                 status |-> "not_started",
                 red_flags |-> json_dumps(red_flags), rating |-> rating]
      IN  Outcome(deals, Append(due_diligence, dd), stage_changes,
                  interactions, NoError, Len(due_diligence) + 1)

add_due_diligence(deal_id, category, red_flags, rating) ==
    IF ~DealExists(deal_id) THEN Raise(NotFound)
    ELSE IF ~(1 <= rating /\ rating <= 5) THEN Raise(Validation)
    ELSE
      LET dd == [deal_id |-> deal_id, category |-> category,
                 status |-> "complete", red_flags |-> json_dumps(red_flags),
                 rating |-> rating]
      IN  Outcome(deals, Append(due_diligence, dd), stage_changes,
                  interactions, NoError, Len(due_diligence) + 1)

----------------------------------------------------------------------------
(* score_deal *)

total_rating(dd_items) ==
    SumSeq([i \in 1..Len(dd_items) |->
               IF dd_items[i].rating > 0 THEN dd_items[i].rating ELSE 0])

(* int((avg_rating / 5.0) * 80) with avg_rating = total / n: the float
   product equals the exact quotient's floor for every total in n..5n, n < 40 *)
base_score(total, n) == (total * 80) \div (5 * n)

(* the reports that carry a red flag, counted in place of the flags *)
total_red_flags_flagged_reports(dd_items) ==
    SumSeq([i \in 1..Len(dd_items) |->
               IF Len(json_loads(dd_items[i].red_flags)) > 0 THEN 1 ELSE 0])

total_red_flags(dd_items) ==
    SumSeq([i \in 1..Len(dd_items) |->
               Len(json_loads(dd_items[i].red_flags))])

(* the penalty without its cap *)
penalty_uncapped(flags) == flags * 5

(* the penalty capped after five flags *)
penalty_capped_at_five(flags) == Min(flags * 5, 25)

penalty(flags) == Min(flags * 5, 30)

(* the categories counted as runs of equal categories in row order *)
categories_covered_runs(dd_items) ==
    Cardinality({i \in 1..Len(dd_items) :
                    i = 1 \/ dd_items[i].category # dd_items[i - 1].category})

categories_covered(dd_items) ==
    Cardinality({dd_items[i].category : i \in 1..Len(dd_items)})

coverage_bonus(categories) == Min(categories * 4, 20)

(* base_score - penalty + coverage_bonus, before the clamp *)
raw_score(dd_items) ==
    base_score(total_rating(dd_items), Len(dd_items))
    - penalty(total_red_flags(dd_items))
    + coverage_bonus(categories_covered(dd_items))

(* the clamp without its lower end *)
clamp_score_upper_only(raw) == Min(100, raw)

clamp_score(raw) == Max(0, Min(100, raw))

(* score_deal reading the reports of every deal *)
score_deal_all_reports(deal_id) ==
    IF ~DealExists(deal_id) THEN Raise(NotFound)
    ELSE
      LET dd_items == due_diligence
      IN  IF dd_items = << >>
          THEN Outcome(deals, due_diligence, stage_changes, interactions,
                       NoError, 0)
          ELSE
            LET score == clamp_score(raw_score(dd_items))
            IN  Outcome([deals EXCEPT ![deal_id].score = score],
                        due_diligence, stage_changes, interactions,
                        NoError, score)

score_deal(deal_id) ==
    IF ~DealExists(deal_id) THEN Raise(NotFound)
    ELSE
      LET dd_items == RowsOf(due_diligence, deal_id)
      IN  IF dd_items = << >>
          THEN Outcome(deals, due_diligence, stage_changes, interactions,
                       NoError, 0)
          ELSE
            LET score == clamp_score(raw_score(dd_items))
            IN  Outcome([deals EXCEPT ![deal_id].score = score],
                        due_diligence, stage_changes, interactions,
                        NoError, score)

----------------------------------------------------------------------------
(* pass_deal *)

PassedNote(reason) == <<"\n", "[PASSED] ">> \o reason

(* pass_deal logging the pass without the stage update *)
pass_deal_stage_kept(deal_id, reason, passed_by) ==
    IF ~DealExists(deal_id) THEN Raise(NotFound)
    ELSE
      LET old_stage == deals[deal_id].stage
          change == [deal_id |-> deal_id, old_stage |-> old_stage,
                     new_stage |-> "passed", changed_by |-> passed_by,
                     reason |-> reason]
      IN  Outcome([deals EXCEPT ![deal_id].notes = @ \o PassedNote(reason)],
                  due_diligence, Append(stage_changes, change),
                  interactions, NoError, NoRet)

(* pass_deal with notes=? in place of notes=notes||? *)
pass_deal_notes_replaced(deal_id, reason, passed_by) ==
    IF ~DealExists(deal_id) THEN Raise(NotFound)
    ELSE
      LET old_stage == deals[deal_id].stage
          change == [deal_id |-> deal_id, old_stage |-> old_stage,
                     new_stage |-> "passed", changed_by |-> passed_by,
                     reason |-> reason]
      IN  Outcome([deals EXCEPT ![deal_id].stage = "passed",
                                ![deal_id].notes = PassedNote(reason)],
                  due_diligence, Append(stage_changes, change),
                  interactions, NoError, NoRet)

(* pass_deal logging passed as the old stage too *)
pass_deal_old_is_new(deal_id, reason, passed_by) ==
    IF ~DealExists(deal_id) THEN Raise(NotFound)
    ELSE
      LET change == [deal_id |-> deal_id, old_stage |-> "passed",
                     new_stage |-> "passed", changed_by |-> passed_by,
                     reason |-> reason]
      IN  Outcome([deals EXCEPT ![deal_id].stage = "passed",
                                ![deal_id].notes = @ \o PassedNote(reason)],
                  due_diligence, Append(stage_changes, change),
                  interactions, NoError, NoRet)

(* pass_deal clearing the score of the deal it passes on *)
pass_deal_score_cleared(deal_id, reason, passed_by) ==
    IF ~DealExists(deal_id) THEN Raise(NotFound)
    ELSE
      LET old_stage == deals[deal_id].stage
          change == [deal_id |-> deal_id, old_stage |-> old_stage,
                     new_stage |-> "passed", changed_by |-> passed_by,
                     reason |-> reason]
      IN  Outcome([deals EXCEPT ![deal_id].stage = "passed",
                                ![deal_id].score = 0,
                                ![deal_id].notes = @ \o PassedNote(reason)],
                  due_diligence, Append(stage_changes, change),
                  interactions, NoError, NoRet)

pass_deal(deal_id, reason, passed_by) ==
    IF ~DealExists(deal_id) THEN Raise(NotFound)
    ELSE
      LET old_stage == deals[deal_id].stage
          change == [deal_id |-> deal_id, old_stage |-> old_stage,
                     new_stage |-> "passed", changed_by |-> passed_by,
                     reason |-> reason]
      IN  Outcome([deals EXCEPT ![deal_id].stage = "passed",
                                ![deal_id].notes = @ \o PassedNote(reason)],
                  due_diligence, Append(stage_changes, change),
                  interactions, NoError, NoRet)

----------------------------------------------------------------------------
(* log_interaction: no lookup of the deal; the INSERT runs under
   PRAGMA foreign_keys = ON, so the store rejects an unknown deal_id *)

log_interaction(deal_id, interaction_type) ==
    IF ~DealExists(deal_id) THEN Raise(Integrity)
    ELSE Outcome(deals, due_diligence, stage_changes,
                 Append(interactions,
                        [deal_id |-> deal_id, type |-> interaction_type]),
                 NoError, Len(interactions) + 1)

----------------------------------------------------------------------------
(* get_deal_details and deal_summary_text: read only *)

get_deal_details(deal_id) ==
    IF ~DealExists(deal_id) THEN Raise(NotFound)
    ELSE Outcome(deals, due_diligence, stage_changes, interactions, NoError,
                 [deal |-> deals[deal_id],
                  due_diligence |-> RowsOf(due_diligence, deal_id),
                  stage_history |-> RowsOf(stage_changes, deal_id),
                  interactions |-> RowsOf(interactions, deal_id)])

deal_summary_text(deal_id) ==
    LET details == get_deal_details(deal_id)
    IN  IF details.err # NoError THEN details
        ELSE Outcome(deals, due_diligence, stage_changes, interactions,
                     NoError,
                     [stage |-> details.ret.deal.stage,
                      score |-> details.ret.deal.score,
                      reports |-> Len(details.ret.due_diligence),
                      changes |-> Len(details.ret.stage_history)])

----------------------------------------------------------------------------
(* pipeline_report: read only. The rows come newest first (ORDER BY
   created_at DESC); generated_at is left out *)

RECURSIVE Reverse(_)
Reverse(s) == IF s = << >> THEN << >> ELSE Append(Reverse(Tail(s)), Head(s))

raise_sum(rows) == SumSeq([i \in 1..Len(rows) |-> rows[i].raise_amount])

stage_deals(rows, stage) ==
    LET InStage(d) == d.stage = stage IN SelectSeq(rows, InStage)

(* the active deals as the deals that are not passed *)
active_deals_not_passed(rows) ==
    LET Active(d) == d.stage # "passed" IN SelectSeq(rows, Active)

active_deals(rows) ==
    LET Active(d) == d.stage \notin {"passed", "portfolio"}
    IN  SelectSeq(rows, Active)

(* sorted(..., key=score, reverse=True): stable, so among equal scores the
   earlier row stays first *)
RECURSIVE sorted_by_score(_)
sorted_by_score(rows) ==
    IF rows = << >> THEN << >>
    ELSE LET i == CHOOSE i \in 1..Len(rows) :
                      /\ \A j \in 1..Len(rows) : rows[j].score <= rows[i].score
                      /\ \A j \in 1..(i - 1) : rows[j].score < rows[i].score
         IN  <<rows[i]>> \o sorted_by_score(SubSeq(rows, 1, i - 1)
                                            \o SubSeq(rows, i + 1, Len(rows)))

TopScored == 5

top_scored(rows) ==
    LET Scored(d) == d.score > 0
        sorted == sorted_by_score(SelectSeq(rows, Scored))
    IN  SubSeq(sorted, 1, Min(TopScored, Len(sorted)))

pipeline_report ==
    LET rows == Reverse(deals)
        by_stage == [stage \in DealStage |->
                        [count |-> Len(stage_deals(rows, stage)),
                         total_raise |-> raise_sum(stage_deals(rows, stage)),
                         deals |-> stage_deals(rows, stage)]]
        not_passed(d) == d.stage # "passed"
    IN  Outcome(deals, due_diligence, stage_changes, interactions, NoError,
                [total_deals |-> Len(rows),
                 active_pipeline |-> Len(active_deals(rows)),
                 portfolio_companies |-> Len(stage_deals(rows, "portfolio")),
                 passed_deals |-> by_stage["passed"].count,
                 total_pipeline_value |->
                     raise_sum(SelectSeq(rows, not_passed)),
                 by_stage |-> by_stage,
                 top_scored |-> top_scored(rows)])

----------------------------------------------------------------------------
(* Inputs of the calls *)

(* the ids of the deals, and an id no deal has *)
DealIdInputs == DOMAIN deals \cup {0}

Rows == Len(deals) + Len(due_diligence) + Len(stage_changes)
        + Len(interactions)

ValidDeal == [company |-> <<"AcmeCo">>, sector |-> <<"SaaS">>,
              raise_amount |-> 5, valuation |-> 25, notes |-> <<"intro">>]

CreateInputs ==
    { ValidDeal,
      [ValidDeal EXCEPT !.company = << >>, !.sector = << >>,
                        !.notes = << >>],
      [ValidDeal EXCEPT !.raise_amount = 0 - 1, !.valuation = 0 - 1] }

(* changed_by / passed_by and reason of a stage change *)
ActorInputs == { [by |-> "analyst", reason |-> <<"screening ok">>] }
PassInputs == { [by |-> "partner", reason |-> <<"too expensive">>] }

(* category, rating and red flags of the reports of the lifecycle runs;
   ratings 0 and 6 are out of range *)
ReportInputs ==
    { [category |-> "technical", rating |-> 4, red_flags |-> << >>],
      [category |-> "team", rating |-> 1,
       red_flags |-> <<"f1", "f2", "f3", "f4", "f5">>],
      [category |-> "market", rating |-> 0, red_flags |-> << >>],
      [category |-> "market", rating |-> 6, red_flags |-> <<"f1">>] }

(* the reports added in the runs of two connections *)
ConnReportInputs == {r \in ReportInputs : r.category = "team"}

(* the reports of the scoring runs *)
ScoreRatings == {1, 4, 5}
ScoreCategories == {"technical", "market"}
ScoreFlags == { << >>, <<"f1", "f2">>, <<"f1", "f2", "f3">> }

ScoreReports ==
    [deal_id : {1}, category : ScoreCategories, status : {"complete"},
     red_flags : {json_dumps(f) : f \in ScoreFlags}, rating : ScoreRatings]

----------------------------------------------------------------------------
(* The calls as steps *)

(* the connections of the runs of two connections, and a connection with
   no call in progress *)
Writers == {"w1", "w2"}

Closed ==
    [pc |-> "closed", op |-> "none", deal_id |-> 0, old_stage |-> "none",
     new_stage |-> "none", by |-> "none", reason |-> << >>, score |-> 0,
     report |-> "none"]

Apply(op, deal_id, r, ret) ==
    /\ conns' = conns
    /\ deals' = r.deals
    /\ due_diligence' = r.due_diligence
    /\ stage_changes' = r.stage_changes
    /\ interactions' = r.interactions
    /\ last' = [op |-> op, deal_id |-> deal_id, err |-> r.err, ret |-> ret]

AddDeal ==
    /\ Rows < MaxRows
    /\ \E in \in CreateInputs :
          Apply("add_deal", Len(deals) + 1,
                add_deal(in.company, in.sector, in.raise_amount,
                         in.valuation, in.notes), NoRet)

AdvanceStage ==
    \E d \in DealIdInputs, s \in DealStage, a \in ActorInputs :
        /\ DealExists(d) => Rows < MaxRows
        /\ Apply("advance_stage", d,
              advance_stage(d, s, a.by, a.reason), NoRet)

PassDeal ==
    \E d \in DealIdInputs, a \in PassInputs :
        /\ DealExists(d) => Rows < MaxRows
        /\ Apply("pass_deal", d, pass_deal(d, a.reason, a.by), NoRet)

AddDueDiligence ==
    \E d \in DealIdInputs, in \in ReportInputs :
        /\ DealExists(d) => Rows < MaxRows
        /\ Apply("add_due_diligence", d,
                 add_due_diligence(d, in.category, in.red_flags, in.rating),
                 NoRet)

ScoreDeal ==
    \E d \in DealIdInputs :
        LET r == score_deal(d) IN Apply("score_deal", d, r, r.ret)

LogInteraction ==
    \E d \in DealIdInputs :
        /\ DealExists(d) => Rows < MaxRows
        /\ Apply("log_interaction", d, log_interaction(d, "call"), NoRet)

GetDealDetails ==
    \E d \in DealIdInputs :
        Apply("get_deal_details", d, get_deal_details(d), NoRet)

DealSummaryText ==
    \E d \in DealIdInputs :
        Apply("deal_summary_text", d, deal_summary_text(d), NoRet)

PipelineReport ==
    Apply("pipeline_report", 0, pipeline_report, NoRet)

(* init_db: the four tables, empty *)
Init ==
    /\ deals = << >>
    /\ due_diligence = << >>
    /\ stage_changes = << >>
    /\ interactions = << >>
    /\ last = [op |-> "init_db", deal_id |-> 0, err |-> NoError,
               ret |-> NoRet]
    /\ conns = [w \in Writers |-> Closed]

Next ==
    \/ AddDeal
    \/ AdvanceStage
    \/ PassDeal
    \/ AddDueDiligence
    \/ ScoreDeal
    \/ LogInteraction
    \/ GetDealDetails
    \/ DealSummaryText
    \/ PipelineReport

Spec == Init /\ [][Next]_vars

----------------------------------------------------------------------------
(* The scoring runs: one deal and the reports add_due_diligence can have
   written for it, in any order; the steps score it *)

InitScore ==
    /\ deals = << Deal(ValidDeal.company, ValidDeal.sector,
                       ValidDeal.raise_amount, ValidDeal.valuation,
                       ValidDeal.notes) >>
    /\ due_diligence \in
           UNION { [1..n -> ScoreReports] : n \in 0..MaxScoreReports }
    /\ stage_changes = << >>
    /\ interactions = << >>
    /\ last = [op |-> IF due_diligence = << >> THEN "add_deal"
                       ELSE "add_due_diligence",
               deal_id |-> 1, err |-> NoError, ret |-> NoRet]
    /\ conns = [w \in Writers |-> Closed]

NextScore == ScoreDeal

SpecScore == InitScore /\ [][NextScore]_vars

----------------------------------------------------------------------------
(* The scoring runs with stage changes: one deal and its reports in any
   order; the steps score it, advance it and pass on it *)

OrderReports ==
    [deal_id : {1}, category : ScoreCategories, status : {"complete"},
     red_flags : {json_dumps(<< >>), json_dumps(<<"f1", "f2">>)},
     rating : {4, 5}]

InitOrder ==
    /\ deals = << Deal(ValidDeal.company, ValidDeal.sector,
                       ValidDeal.raise_amount, ValidDeal.valuation,
                       ValidDeal.notes) >>
    /\ due_diligence \in
           UNION { [1..n -> OrderReports] : n \in 0..MaxScoreReports }
    /\ stage_changes = << >>
    /\ interactions = << >>
    /\ last = [op |-> IF due_diligence = << >> THEN "add_deal"
                       ELSE "add_due_diligence",
               deal_id |-> 1, err |-> NoError, ret |-> NoRet]
    /\ conns = [w \in Writers |-> Closed]

(* the target stages of the advances of these runs *)
OrderStages == {"due_diligence"}

AdvanceStageScored ==
    \E d \in DealIdInputs, s \in OrderStages, a \in ActorInputs :
        /\ Len(stage_changes) < MaxScoreChanges
        /\ Apply("advance_stage", d,
                 advance_stage(d, s, a.by, a.reason), NoRet)

PassDealScored ==
    \E d \in DealIdInputs, a \in PassInputs :
        /\ Len(stage_changes) < MaxScoreChanges
        /\ Apply("pass_deal", d, pass_deal(d, a.reason, a.by), NoRet)

NextOrder ==
    \/ ScoreDeal
    \/ AdvanceStageScored
    \/ PassDealScored

SpecOrder == InitOrder /\ [][NextOrder]_vars

----------------------------------------------------------------------------
(* The runs of two connections: one deal with one report; advance_stage,
   pass_deal, score_deal and add_due_diligence run on two connections, a
   statement a step, and get_deal_details reads the committed rows *)

(* sqlite3.connect with the default isolation_level: the first UPDATE or
   INSERT of a connection begins a transaction, which takes the store's
   write lock and lasts until conn.commit() or until the connection is
   dropped, which rolls it back *)
implicit_transactions_off == FALSE

implicit_transactions == TRUE

Interrupted == "interrupted"

StageOps == {"advance_stage", "pass_deal"}

write_locked(w) ==
    /\ implicit_transactions
    /\ \E v \in Writers \ {w} : conns[v].pc \in {"updated", "inserted"}

(* the rows the calls in progress are about to write *)
RowsToWrite ==
    Cardinality({w \in Writers : conns[w].pc # "closed"
                                     /\ conns[w].op # "score_deal"})

(* UPDATE deals SET stage=? ... WHERE deal_id=? only while the deal is in
   the stage the call has read *)
update_deals_if_unchanged(c) ==
    IF c.op \in StageOps /\ deals[c.deal_id].stage # c.old_stage THEN deals
    ELSE IF c.op = "advance_stage"
    THEN [deals EXCEPT ![c.deal_id].stage = c.new_stage]
    ELSE IF c.op = "pass_deal"
    THEN [deals EXCEPT ![c.deal_id].stage = "passed",
                       ![c.deal_id].notes = @ \o PassedNote(c.reason)]
    ELSE [deals EXCEPT ![c.deal_id].score = c.score]

(* the UPDATE of the call c, on the rows as they are when it runs *)
update_deals(c) ==
    IF c.op = "advance_stage"
    THEN [deals EXCEPT ![c.deal_id].stage = c.new_stage]
    ELSE IF c.op = "pass_deal"
    THEN [deals EXCEPT ![c.deal_id].stage = "passed",
                       ![c.deal_id].notes = @ \o PassedNote(c.reason)]
    ELSE [deals EXCEPT ![c.deal_id].score = c.score]

(* the INSERT of the call c *)
insert_stage_change(c) ==
    Append(stage_changes,
           [deal_id |-> c.deal_id, old_stage |-> c.old_stage,
            new_stage |-> c.new_stage, changed_by |-> c.by,
            reason |-> c.reason])

insert_due_diligence(c) == due_diligence \o c.report

(* a call that ends at its SELECT: the exception or the value is all of it *)
ReturnAtSelect(op, deal_id, err, ret) ==
    /\ last' = [op |-> op, deal_id |-> deal_id, err |-> err, ret |-> ret]
    /\ UNCHANGED <<deals, due_diligence, stage_changes, interactions, conns>>

(* a call that goes on after its SELECT, with what it has read *)
Selected(w, c) ==
    /\ conns' = [conns EXCEPT ![w] = [c EXCEPT !.pc = "selected"]]
    /\ UNCHANGED <<deals, due_diligence, stage_changes, interactions, last>>

CanBegin(w) ==
    /\ conns[w].pc = "closed"
    /\ Rows + RowsToWrite < MaxConnRows

BeginAdvanceStage(w) ==
    \E d \in DealIdInputs, s \in OrderStages, a \in ActorInputs :
        /\ CanBegin(w)
        /\ IF ~DealExists(d)
           THEN ReturnAtSelect("advance_stage", d, NotFound, NoRet)
           ELSE Selected(w, [Closed EXCEPT !.op = "advance_stage",
                                !.deal_id = d,
                                !.old_stage = deals[d].stage,
                                !.new_stage = s, !.by = a.by,
                                !.reason = a.reason])

BeginPassDeal(w) ==
    \E d \in DealIdInputs, a \in PassInputs :
        /\ CanBegin(w)
        /\ IF ~DealExists(d)
           THEN ReturnAtSelect("pass_deal", d, NotFound, NoRet)
           ELSE Selected(w, [Closed EXCEPT !.op = "pass_deal", !.deal_id = d,
                                !.old_stage = deals[d].stage,
                                !.new_stage = "passed", !.by = a.by,
                                !.reason = a.reason])

(* the two SELECTs of score_deal are one step: no call removes a deal *)
BeginScoreDeal(w) ==
    \E d \in DealIdInputs :
        /\ conns[w].pc = "closed"
        /\ IF ~DealExists(d)
           THEN ReturnAtSelect("score_deal", d, NotFound, NoRet)
           ELSE LET dd_items == RowsOf(due_diligence, d)
                IN  IF dd_items = << >>
                    THEN ReturnAtSelect("score_deal", d, NoError, 0)
                    ELSE Selected(w, [Closed EXCEPT !.op = "score_deal",
                                         !.deal_id = d,
                                         !.score =
                                           clamp_score(raw_score(dd_items))])

BeginAddDueDiligence(w) ==
    \E d \in DealIdInputs, in \in ConnReportInputs :
        /\ CanBegin(w)
        /\ IF ~DealExists(d)
           THEN ReturnAtSelect("add_due_diligence", d, NotFound, NoRet)
           ELSE Selected(w, [Closed EXCEPT !.op = "add_due_diligence",
                                !.deal_id = d,
                                !.report =
                                  << [deal_id |-> d,
                                      category |-> in.category,
                                      status |-> "complete",
                                      red_flags |-> json_dumps(in.red_flags),
                                      rating |-> in.rating] >>])

(* the UPDATE of advance_stage, pass_deal and score_deal: it waits for the
   write lock; its row is committed at once only without a transaction *)
ExecUpdate(w) ==
    /\ conns[w].pc = "selected"
    /\ conns[w].op \in StageOps \cup {"score_deal"}
    /\ ~write_locked(w)
    /\ deals' = IF implicit_transactions THEN deals
                ELSE update_deals(conns[w])
    /\ conns' = [conns EXCEPT ![w].pc = "updated"]
    /\ UNCHANGED <<due_diligence, stage_changes, interactions, last>>

(* the INSERT of advance_stage and pass_deal, inside the transaction of the
   UPDATE, and the INSERT of add_due_diligence, which waits for the lock *)
ExecInsert(w) ==
    /\ \/ conns[w].pc = "updated" /\ conns[w].op \in StageOps
       \/ /\ conns[w].pc = "selected"
          /\ conns[w].op = "add_due_diligence"
          /\ ~write_locked(w)
    /\ stage_changes' =
          IF ~implicit_transactions /\ conns[w].op \in StageOps
          THEN insert_stage_change(conns[w]) ELSE stage_changes
    /\ due_diligence' =
          IF ~implicit_transactions /\ conns[w].op = "add_due_diligence"
          THEN insert_due_diligence(conns[w]) ELSE due_diligence
    /\ conns' = [conns EXCEPT ![w].pc = "inserted"]
    /\ UNCHANGED <<deals, interactions, last>>

(* conn.commit(); conn.close(); return: the rows of the transaction become
   the committed rows. The write lock has kept the committed rows as they
   were when the transaction's first statement ran *)
Commit(w) ==
    LET c == conns[w]
    IN  /\ \/ c.pc = "inserted"
           \/ c.pc = "updated" /\ c.op = "score_deal"
        /\ deals' =
              IF implicit_transactions /\ c.op # "add_due_diligence"
              THEN update_deals(c) ELSE deals
        /\ stage_changes' =
              IF implicit_transactions /\ c.op \in StageOps
              THEN insert_stage_change(c) ELSE stage_changes
        /\ due_diligence' =
              IF implicit_transactions /\ c.op = "add_due_diligence"
              THEN insert_due_diligence(c) ELSE due_diligence
        /\ conns' = [conns EXCEPT ![w] = Closed]
        /\ last' = [op |-> c.op, deal_id |-> c.deal_id, err |-> NoError,
                    ret |-> IF c.op = "score_deal" THEN c.score ELSE NoRet]
        /\ UNCHANGED interactions

(* the process of the call ends before conn.commit(): the connection is
   dropped and its transaction, if it has one, rolled back *)
Interrupt(w) ==
    /\ conns[w].pc # "closed"
    /\ conns' = [conns EXCEPT ![w] = Closed]
    /\ last' = [op |-> conns[w].op, deal_id |-> conns[w].deal_id,
                err |-> Interrupted, ret |-> NoRet]
    /\ UNCHANGED <<deals, due_diligence, stage_changes, interactions>>

InitConns ==
    /\ deals = << Deal(ValidDeal.company, ValidDeal.sector,
                       ValidDeal.raise_amount, ValidDeal.valuation,
                       ValidDeal.notes) >>
    /\ due_diligence =
          << [deal_id |-> 1, category |-> "technical", status |-> "complete",
              red_flags |-> json_dumps(<< >>), rating |-> 4] >>
    /\ stage_changes = << >>
    /\ interactions = << >>
    /\ last = [op |-> "add_due_diligence", deal_id |-> 1, err |-> NoError,
               ret |-> NoRet]
    /\ conns = [w \in Writers |-> Closed]

NextConns ==
    \/ \E w \in Writers :
          \/ BeginAdvanceStage(w)
          \/ BeginPassDeal(w)
          \/ BeginScoreDeal(w)
          \/ BeginAddDueDiligence(w)
          \/ ExecUpdate(w)
          \/ ExecInsert(w)
          \/ Commit(w)
          \/ Interrupt(w)
    \/ GetDealDetails

SpecConns == InitConns /\ [][NextConns]_vars

----------------------------------------------------------------------------
(* What the claims speak of *)

(* the score as the specification states it, over the reports of a deal *)
RECURSIVE SumRatings(_)
SumRatings(reports) ==
    IF reports = << >> THEN 0
    ELSE Head(reports).rating + SumRatings(Tail(reports))

RECURSIVE CountFlags(_)
CountFlags(reports) ==
    IF reports = << >> THEN 0
    ELSE Len(Head(reports).red_flags.json) + CountFlags(Tail(reports))

Range(s) == {s[i] : i \in 1..Len(s)}

StatedBase(reports) == (16 * SumRatings(reports)) \div Len(reports)

StatedPenalty(reports) ==
    IF 5 * CountFlags(reports) < 30 THEN 5 * CountFlags(reports) ELSE 30

StatedBonus(reports) ==
    LET c == Cardinality({r.category : r \in Range(reports)})
    IN  IF 4 * c < 20 THEN 4 * c ELSE 20

StatedScore(reports) ==
    LET raw == StatedBase(reports) - StatedPenalty(reports)
               + StatedBonus(reports)
    IN  IF raw < 0 THEN 0 ELSE IF raw > 100 THEN 100 ELSE raw

(* position of a stage in STAGE_ORDER; passed stands outside it *)
StageIndex(stage) ==
    IF stage = "passed" THEN 0
    ELSE CHOOSE i \in 1..Len(STAGE_ORDER) : STAGE_ORDER[i] = stage

Tables == <<deals, due_diligence, stage_changes, interactions>>

TablesOf(r) == <<r.deals, r.due_diligence, r.stage_changes, r.interactions>>

(* the call of the step just taken returned *)
Returned(op) == last.op = op /\ last.err = NoError

----------------------------------------------------------------------------
(* C1: for every existing deal with at least one due-diligence report,
   score_deal returns clamp(base - penalty + bonus, 0, 100) with
   base = floor((sum of ratings / number of reports) / 5 * 80),
   penalty = min(5 * red flags, 30), bonus = min(4 * distinct categories, 20),
   and persists that value; a scoring step that returned left it as the
   deal's score. *)
C1_ScoreFormula ==
    /\ \A d \in DOMAIN deals :
         LET reports == RowsOf(due_diligence, d)
             r == score_deal(d)
         IN  reports # << >> =>
               /\ r.err = NoError
               /\ r.ret = StatedScore(reports)
               /\ r.deals[d].score = StatedScore(reports)
    /\ Returned("score_deal")
         /\ RowsOf(due_diligence, last.deal_id) # << >> =>
           /\ last.ret = StatedScore(RowsOf(due_diligence, last.deal_id))
           /\ deals[last.deal_id].score = last.ret

(* two reports rated 4 and 5, no red flags, technical and market: 80 *)
C1_Witness ==
    /\ Returned("score_deal")
    /\ Len(due_diligence) = 2
    /\ due_diligence[1].rating = 4 /\ due_diligence[2].rating = 5
    /\ due_diligence[1].category = "technical"
    /\ due_diligence[2].category = "market"
    /\ \A i \in 1..2 : json_loads(due_diligence[i].red_flags) = << >>
    /\ deals[1].score = 80
    /\ last.ret = 80

----------------------------------------------------------------------------
(* C2: in every state every deal's persisted score is an integer in 0..100,
   and every value score_deal returns, for any deal id, is in 0..100. *)
C2_ScoreRange ==
    /\ \A d \in DOMAIN deals : deals[d].score \in 0..100
    /\ \A d \in DealIdInputs :
         score_deal(d).err = NoError => score_deal(d).ret \in 0..100
    /\ Returned("score_deal") => last.ret \in 0..100

(* a deal scored while base - penalty + bonus is below 0 *)
C2_Witness ==
    /\ Returned("score_deal")
    /\ \E d \in DOMAIN deals :
         LET reports == RowsOf(due_diligence, d)
         IN  /\ reports # << >>
             /\ StatedBase(reports) - StatedPenalty(reports)
                  + StatedBonus(reports) < 0
             /\ deals[d].score = 0

----------------------------------------------------------------------------
(* C3: a step that is a returning advance_stage(d, s, changed_by, reason) on
   an existing deal d leaves d in stage s, and get_deal_details(d) then
   lists exactly one more stage change than before: the earlier ones as
   they were, followed by one with old_stage = d's stage before the call,
   new_stage = s and the given changed_by and reason. *)
C3_AdvanceLogsOneEvent ==
    [][\A d \in DOMAIN deals, s \in DealStage, a \in ActorInputs :
         /\ last'.op = "advance_stage"
         /\ Apply("advance_stage", d, advance_stage(d, s, a.by, a.reason),
                  NoRet)
         =>
         LET before == get_deal_details(d).ret.stage_history
             after == get_deal_details(d)'.ret.stage_history
         IN  /\ last'.err = NoError
             /\ get_deal_details(d)'.ret.deal.stage = s
             /\ Len(after) = Len(before) + 1
             /\ SubSeq(after, 1, Len(before)) = before
             /\ after[Len(after)] =
                  [deal_id |-> d, old_stage |-> deals[d].stage,
                   new_stage |-> s, changed_by |-> a.by,
                   reason |-> a.reason]
      ]_vars

(* an advance of a deal that already had a stage change *)
C3_Witness ==
    /\ Returned("advance_stage")
    /\ \E d \in DOMAIN deals :
         LET h == get_deal_details(d).ret.stage_history
         IN  /\ Len(h) = 2
             /\ h[2].changed_by = "analyst"
             /\ h[2].old_stage = h[1].new_stage
             /\ deals[d].stage = h[2].new_stage

----------------------------------------------------------------------------
(* C4: in every state, advance_stage on an existing deal returns for every
   target stage, whatever the deal's current stage, and leaves the deal in
   the target stage. *)
C4_AnyTransitionAccepted ==
    \A d \in DOMAIN deals, s \in DealStage, a \in ActorInputs :
        LET r == advance_stage(d, s, a.by, a.reason)
        IN  /\ r.err = NoError
            /\ r.deals[d].stage = s

(* a deal moved forward over several stages and then backward *)
C4_Witness ==
    /\ Returned("advance_stage")
    /\ \E d \in DOMAIN deals :
         LET h == RowsOf(stage_changes, d)
         IN  /\ Len(h) = 2
             /\ h[1].new_stage # "passed" /\ h[2].new_stage # "passed"
             /\ StageIndex(h[1].new_stage) > StageIndex(h[1].old_stage) + 1
             /\ StageIndex(h[2].new_stage) < StageIndex(h[2].old_stage)
             /\ deals[d].stage = h[2].new_stage

----------------------------------------------------------------------------
(* C5 as stated: once a deal's stage is passed it stays passed, whatever
   step follows. *)
C5_PassedAbsorbing ==
    [][\A d \in DOMAIN deals :
         deals[d].stage = "passed" => deals'[d].stage = "passed"]_vars

(* C5 as amended: in every state pass_deal on an existing deal returns and
   leaves it in passed, whatever its stage; and a deal in passed leaves
   passed only by a returning advance_stage on that deal, which puts it in
   the stage the new stage change records. *)
C5_PassedUntilAdvanced ==
    /\ [](\A d \in DOMAIN deals, a \in PassInputs :
            LET r == pass_deal(d, a.reason, a.by)
            IN  r.err = NoError /\ r.deals[d].stage = "passed")
    /\ [][\A d \in DOMAIN deals :
            deals[d].stage = "passed" /\ deals'[d].stage # "passed" =>
              /\ last'.op = "advance_stage"
              /\ last'.err = NoError
              /\ last'.deal_id = d
              /\ Len(stage_changes') = Len(stage_changes) + 1
              /\ stage_changes'[Len(stage_changes')].old_stage = "passed"
              /\ stage_changes'[Len(stage_changes')].new_stage
                   = deals'[d].stage
       ]_vars

(* a deal passed on from a later stage, still passed after it was scored *)
C5_Witness ==
    /\ Returned("score_deal")
    /\ deals[last.deal_id].stage = "passed"
    /\ \E i \in 1..Len(stage_changes) :
         /\ stage_changes[i].deal_id = last.deal_id
         /\ stage_changes[i].new_stage = "passed"
         /\ stage_changes[i].old_stage \notin {"awareness", "passed"}

----------------------------------------------------------------------------
(* C6: a step that is a returning pass_deal(d, reason, passed_by) on an
   existing deal d, in any stage, leaves d in passed, leaves notes as the
   previous notes followed by the line break and "[PASSED] " and the reason,
   and appends exactly one stage change, with old_stage = d's stage before
   the call, new_stage = passed, the given passed_by and reason. *)
C6_PassAppendsNoteAndEvent ==
    [][\A d \in DOMAIN deals, a \in PassInputs :
         /\ last'.op = "pass_deal"
         /\ Apply("pass_deal", d, pass_deal(d, a.reason, a.by), NoRet)
         =>
         LET old == deals[d].notes
             new == deals'[d].notes
         IN  /\ last'.err = NoError
             /\ deals'[d].stage = "passed"
             /\ SubSeq(new, 1, Len(old)) = old
             /\ SubSeq(new, Len(old) + 1, Len(new))
                  = <<"\n">> \o <<"[PASSED] ">> \o a.reason
             /\ stage_changes' =
                  stage_changes \o
                  << [deal_id |-> d, old_stage |-> deals[d].stage,
                      new_stage |-> "passed", changed_by |-> a.by,
                      reason |-> a.reason] >>
      ]_vars

(* a deal passed on twice: two stage changes, two note lines *)
C6_Witness ==
    /\ Returned("pass_deal")
    /\ LET d == last.deal_id
           h == RowsOf(stage_changes, d)
       IN  /\ Len(h) = 2
           /\ h[1].new_stage = "passed"
           /\ h[2].old_stage = "passed" /\ h[2].new_stage = "passed"
           /\ deals[d].notes =
                <<"intro", "\n", "[PASSED] ", "too expensive",
                  "\n", "[PASSED] ", "too expensive">>

----------------------------------------------------------------------------
(* C7: in every state, add_deal with valid inputs returns a Deal under an id
   no deal had, stores it as returned with the given fields, stage awareness
   and score 0, and no stage change and no report carries its id; the deal
   an add_deal step stored is as said. *)
ValidFields(d) ==
    /\ d.company # << >>
    /\ d.sector # << >>
    /\ d.raise_amount >= 0
    /\ d.valuation >= 0

C7_CreateInAwareness ==
    /\ \A in \in CreateInputs :
         ValidFields(in) =>
           LET r == add_deal(in.company, in.sector, in.raise_amount,
                             in.valuation, in.notes)
               id == r.ret.deal_id
           IN  /\ r.err = NoError
               /\ id \notin DOMAIN deals
               /\ id \in DOMAIN r.deals
               /\ r.deals[id] = r.ret.deal
               /\ r.deals[id].stage = "awareness"
               /\ r.deals[id].score = 0
               /\ r.deals[id].company = in.company
               /\ r.deals[id].sector = in.sector
               /\ r.deals[id].raise_amount = in.raise_amount
               /\ r.deals[id].valuation = in.valuation
               /\ RowsOf(r.stage_changes, id) = << >>
               /\ RowsOf(r.due_diligence, id) = << >>
    /\ Returned("add_deal") /\ ValidFields(deals[last.deal_id]) =>
         /\ last.deal_id = Len(deals)
         /\ deals[last.deal_id].stage = "awareness"
         /\ deals[last.deal_id].score = 0
         /\ RowsOf(stage_changes, last.deal_id) = << >>
         /\ RowsOf(due_diligence, last.deal_id) = << >>

(* a second deal created while the first has a report and a stage change *)
C7_Witness ==
    /\ Returned("add_deal")
    /\ last.deal_id = 2
    /\ ValidFields(deals[2])
    /\ deals[2].stage = "awareness" /\ deals[2].score = 0
    /\ deals[1].stage # "awareness"
    /\ RowsOf(stage_changes, 1) # << >>

----------------------------------------------------------------------------
(* C8: add_deal with an empty company or sector, or a negative raise_amount
   or valuation, raises the validation error and stores nothing: an add_deal
   step that returned stored a deal with valid fields, and no stored deal
   has an empty company or sector or a negative raise_amount or valuation. *)
C8_CreateValidates ==
    /\ last.op = "add_deal" => last.err \in {NoError, Validation}
    /\ Returned("add_deal") => ValidFields(deals[last.deal_id])
    /\ \A d \in DOMAIN deals : ValidFields(deals[d])

----------------------------------------------------------------------------
(* C9: in every state, add_due_diligence on an existing deal with a rating
   outside 1..5 raises the validation error and leaves the four tables as
   they are; and a step that ends in that error changes no table. *)
BadRatings == {0 - 1, 0, 6, 7}

C9_BadRatingWritesNothing ==
    /\ [](\A d \in DOMAIN deals, c \in DDCategory,
             f \in {<< >>, <<"f1">>}, rating \in BadRatings :
            LET r == add_due_diligence(d, c, f, rating)
            IN  r.err = Validation /\ TablesOf(r) = Tables)
    /\ [][last'.op = "add_due_diligence" /\ last'.deal_id \in DOMAIN deals
            /\ last'.err # NoError
          => last'.err = Validation /\ Tables' = Tables]_vars

(* a rejected report for a deal that already has one *)
C9_Witness ==
    /\ last.op = "add_due_diligence"
    /\ last.err = Validation
    /\ last.deal_id \in DOMAIN deals
    /\ RowsOf(due_diligence, last.deal_id) # << >>

----------------------------------------------------------------------------
(* C10: a step that is a call of advance_stage, pass_deal, add_due_diligence,
   score_deal, get_deal_details, deal_summary_text or log_interaction with a
   deal_id no deal has ends in the not-found error and changes no table. *)
DealOps == {"advance_stage", "pass_deal", "add_due_diligence", "score_deal",
            "get_deal_details", "deal_summary_text", "log_interaction"}

C10_MissingDealNotFound ==
    [][last'.op \in DealOps /\ last'.deal_id \notin DOMAIN deals =>
         last'.err = NotFound /\ Tables' = Tables]_vars

----------------------------------------------------------------------------
(* C11: a step that is a returning call of add_due_diligence appends exactly
   one report, the one of its arguments, to the reports, and leaves every
   deal (stage, notes and persisted score included), the stage changes and
   the interactions as they are. *)
C11_ReportOnlyAppends ==
    [][\A d \in DOMAIN deals, in \in ReportInputs :
         /\ last'.op = "add_due_diligence"
         /\ last'.err = NoError
         /\ Apply("add_due_diligence", d,
                  add_due_diligence(d, in.category, in.red_flags, in.rating),
                  NoRet)
         =>
         /\ Len(due_diligence') = Len(due_diligence) + 1
         /\ SubSeq(due_diligence', 1, Len(due_diligence)) = due_diligence
         /\ LET dd == due_diligence'[Len(due_diligence')]
            IN  /\ dd.deal_id = d
                /\ dd.category = in.category
                /\ dd.rating = in.rating
                /\ json_loads(dd.red_flags) = in.red_flags
         /\ deals' = deals
         /\ stage_changes' = stage_changes
         /\ interactions' = interactions]_vars

(* a second report has been added to a scored deal, whose persisted score
   is now not the score of its reports *)
C11_Witness ==
    /\ Returned("add_due_diligence")
    /\ Len(RowsOf(due_diligence, last.deal_id)) = 2
    /\ deals[last.deal_id].score > 0
    /\ deals[last.deal_id].score
          # StatedScore(RowsOf(due_diligence, last.deal_id))

----------------------------------------------------------------------------
(* C12: in every state, score_deal on an existing deal that has no report
   returns 0 without an error, and the deal's persisted score is 0 after the
   call; no table other than deals can differ, and deals does not either. *)
C12_NoReportsScoreZero ==
    \A d \in DOMAIN deals :
        RowsOf(due_diligence, d) = << >> =>
            LET r == score_deal(d)
            IN  /\ r.err = NoError
                /\ r.ret = 0
                /\ r.deals[d].score = 0
                /\ TablesOf(r) = Tables

(* a deal without reports has been scored 0 while another deal holds a
   report and a positive score *)
C12_Witness ==
    /\ Returned("score_deal")
    /\ last.ret = 0
    /\ RowsOf(due_diligence, last.deal_id) = << >>
    /\ deals[last.deal_id].score = 0
    /\ \E d \in DOMAIN deals :
          RowsOf(due_diligence, d) # << >> /\ deals[d].score > 0

----------------------------------------------------------------------------
(* C13: in every state of a scoring run with stage changes, whatever the
   deal's stage, its persisted score and the calls made so far, score_deal
   returns the score of the deal's reports taken in any other order and with
   any other red flags of the same number: the score depends on the ratings,
   the red-flag counts and the categories of the reports alone. *)
OtherFlags(report) ==
    [report EXCEPT !.red_flags =
        json_dumps([i \in 1..Len(json_loads(@)) |-> "other"])]

ScoreOfReports(reports) ==
    IF reports = << >> THEN 0 ELSE clamp_score(raw_score(reports))

C13_ScoreDeterministic ==
    \A d \in DOMAIN deals :
        LET reports == RowsOf(due_diligence, d)
            r == score_deal(d)
        IN  /\ r.err = NoError
            /\ \A p \in Permutations(1..Len(reports)) :
                  r.ret = ScoreOfReports([i \in 1..Len(reports) |->
                                             OtherFlags(reports[p[i]])])

(* Scenario B's reports in the other order, plus a third with red flags,
   scored after a pass_deal *)
C13_Witness ==
    /\ Returned("score_deal")
    /\ deals[1].stage = "passed"
    /\ Len(due_diligence) = 3
    /\ due_diligence[1].category = "market"
    /\ due_diligence[2].category = "technical"
    /\ due_diligence[3].category = "market"
    /\ json_loads(due_diligence[3].red_flags) # << >>
    /\ last.ret = deals[1].score

----------------------------------------------------------------------------
(* C14: every step either is a returning call of advance_stage or pass_deal
   and appends exactly one stage change, of the deal of the call, to the
   stage changes written so far, or is any other step (a failed call, a call
   of another function) and leaves the stage changes as they are: the log
   grows by one per successful transition and nothing written is changed or
   removed. *)
C14_StageLogAppendOnly ==
    [][IF last'.op \in {"advance_stage", "pass_deal"} /\ last'.err = NoError
       THEN /\ Len(stage_changes') = Len(stage_changes) + 1
            /\ SubSeq(stage_changes', 1, Len(stage_changes)) = stage_changes
            /\ stage_changes'[Len(stage_changes')].deal_id = last'.deal_id
       ELSE stage_changes' = stage_changes]_vars

(* a failed pass_deal after one advance and one pass have been logged *)
C14_Witness ==
    /\ last.op = "pass_deal"
    /\ last.err = NotFound
    /\ Len(stage_changes) = 2
    /\ stage_changes[1].new_stage = stage_changes[1].old_stage
    /\ stage_changes[2].new_stage = "passed"

----------------------------------------------------------------------------
(* C15, Scenario C. ScenarioC(k): the deal has three reports, two of them
   Scenario B's (technical rated 4, market rated 5, no red flags) and the
   k-th a further report with 2 red flags. ScenarioBFlagged: the deal has
   Scenario B's two reports and one of them carries the 2 red flags. *)
IsReport(report, category, rating, flags) ==
    /\ report.category = category
    /\ report.rating = rating
    /\ Len(json_loads(report.red_flags)) = flags

ScenarioC(k) ==
    /\ Len(due_diligence) = 3
    /\ k \in 1..3
    /\ Len(json_loads(due_diligence[k].red_flags)) = 2
    /\ \E i, j \in 1..3 \ {k} :
          /\ IsReport(due_diligence[i], "technical", 4, 0)
          /\ IsReport(due_diligence[j], "market", 5, 0)

ScenarioBFlagged ==
    /\ Len(due_diligence) = 2
    /\ \E i, j \in 1..2 :
          /\ due_diligence[i].category = "technical"
          /\ due_diligence[i].rating = 4
          /\ due_diligence[j].category = "market"
          /\ due_diligence[j].rating = 5
    /\ total_red_flags(due_diligence) = 2

(* C15 as stated: a score_deal that has returned for a deal in Scenario C
   found 2 red flags, a penalty of 10, and returned 70. *)
C15_ScenarioCScores70 ==
    \A k \in 1..3 :
        Returned("score_deal") /\ last.deal_id = 1 /\ ScenarioC(k) =>
            /\ total_red_flags(due_diligence) = 2
            /\ penalty(total_red_flags(due_diligence)) = 10
            /\ last.ret = 70

(* C15, amended: in Scenario C score_deal finds 2 red flags and a penalty of
   10, and returns floor(16 * (9 + rating) / 3) - 10 + 4 * categories for
   the rating of the third report and the number of distinct categories,
   which is not 70; it returns 70 in ScenarioBFlagged. *)
C15_ScenarioCScore ==
    /\ \A k \in 1..3 :
          ScenarioC(k) =>
            LET r == score_deal(1)
                categories ==
                    Cardinality({due_diligence[i].category : i \in 1..3})
            IN  /\ r.err = NoError
                /\ total_red_flags(due_diligence) = 2
                /\ penalty(total_red_flags(due_diligence)) = 10
                /\ r.ret = (16 * (9 + due_diligence[k].rating)) \div 3
                            - 10 + 4 * categories
                /\ r.ret # 70
                /\ r.deals[1].score = r.ret
    /\ ScenarioBFlagged => score_deal(1).ret = 70

(* Scenario C with a third report rated 5, scored 72 *)
C15_Witness ==
    /\ Returned("score_deal")
    /\ ScenarioC(3)
    /\ due_diligence[3].rating = 5
    /\ last.ret = 72
    /\ deals[1].score = 72

----------------------------------------------------------------------------
(* C16: in every state, pipeline_report returns without an error and changes
   no table; by_stage[s].count is the number of deals in stage s for every
   stage s, active_pipeline the number of deals neither passed nor in
   portfolio, portfolio_companies the number in portfolio, passed_deals the
   number in passed and total_deals the number of deals. With two deals, one
   in awareness and one passed (Scenario E), active_pipeline = 1,
   passed_deals = 1 and by_stage[awareness].count = 1. *)
InStages(stages) == {d \in DOMAIN deals : deals[d].stage \in stages}

C16_PipelineCounts ==
    LET r == pipeline_report
    IN  /\ r.err = NoError
        /\ TablesOf(r) = Tables
        /\ \A s \in DealStage :
              r.ret.by_stage[s].count = Cardinality(InStages({s}))
        /\ r.ret.active_pipeline =
              Cardinality(InStages(DealStage \ {"passed", "portfolio"}))
        /\ r.ret.portfolio_companies = Cardinality(InStages({"portfolio"}))
        /\ r.ret.passed_deals = Cardinality(InStages({"passed"}))
        /\ r.ret.total_deals = Len(deals)
        /\ (Len(deals) = 2 /\ InStages({"awareness"}) # {}
              /\ InStages({"passed"}) # {}
            => /\ r.ret.active_pipeline = 1
               /\ r.ret.passed_deals = 1
               /\ r.ret.by_stage["awareness"].count = 1)

(* Scenario E: the report has been made for two deals, one passed on *)
C16_Witness ==
    /\ Returned("pipeline_report")
    /\ Len(deals) = 2
    /\ InStages({"awareness"}) # {}
    /\ InStages({"passed"}) # {}
    /\ Len(stage_changes) = 1
    /\ pipeline_report.ret.active_pipeline = 1

----------------------------------------------------------------------------
(* C19: whenever score_deal has returned for a deal with reports, for the
   ratings and categories of the deal's reports and the number of red flags
   they carry: the score is at most the score with one flag less, which for one flag is at most the
   score without flags; the unclamped score is the unclamped score without
   flags less 5 for each flag up to the sixth, so 5 less than with one flag
   less up to the sixth flag and the same from the seventh on; from 6 flags
   on the score is the score with exactly 6; and score_deal has returned
   and stored the score of the reports, which depends on the flags through
   their number alone. *)
WithFlags(reports, k) ==
    [i \in 1..Len(reports) |->
        [reports[i] EXCEPT !.red_flags =
            json_dumps(IF i = 1 THEN [j \in 1..k |-> "flag"] ELSE << >>)]]

C19_PenaltyMonotoneCapped ==
    LET reports == RowsOf(due_diligence, 1)
        flags == total_red_flags(reports)
    IN  Returned("score_deal") /\ last.deal_id = 1 /\ reports # << >> =>
        /\ last.ret = ScoreOfReports(reports)
        /\ deals[1].score = last.ret
        /\ raw_score(reports) = raw_score(WithFlags(reports, flags))
        /\ raw_score(reports) = raw_score(WithFlags(reports, 0))
                                  - 5 * (IF flags < 6 THEN flags ELSE 6)
        /\ flags > 0 =>
              /\ ScoreOfReports(reports)
                    <= ScoreOfReports(WithFlags(reports, flags - 1))
              /\ raw_score(reports) =
                    raw_score(WithFlags(reports, flags - 1))
                    - (IF flags <= 6 THEN 5 ELSE 0)
              /\ ScoreOfReports(WithFlags(reports, 1))
                    <= ScoreOfReports(WithFlags(reports, 0))
        /\ flags >= 6 => ScoreOfReports(reports) =
                            ScoreOfReports(WithFlags(reports, 6))

(* a deal with 9 red flags has been scored: as with 6, and lower than
   with 5 *)
C19_Witness ==
    /\ Returned("score_deal")
    /\ last.deal_id = 1
    /\ total_red_flags(due_diligence) = 9
    /\ last.ret = ScoreOfReports(WithFlags(due_diligence, 6))
    /\ last.ret + 5 = ScoreOfReports(WithFlags(due_diligence, 5))

----------------------------------------------------------------------------
(* C20: in every state, every stored report has status complete, a rating
   from 1 to 5 and the deal_id of a stored deal, so no stored report has
   status not_started, in_progress or blocked or rating 0; and
   add_due_diligence with a rating from 1 to 5 for an existing deal appends
   its report whatever reports the deal has, one of the same category
   included. *)
C20_ReportsWellFormed ==
    /\ \A i \in 1..Len(due_diligence) :
          /\ due_diligence[i].status = "complete"
          /\ due_diligence[i].status \in DDStatus
          /\ due_diligence[i].rating \in 1..5
          /\ due_diligence[i].deal_id \in DOMAIN deals
    /\ \A d \in DOMAIN deals, in \in ReportInputs :
          in.rating \in 1..5 =>
            LET r == add_due_diligence(d, in.category, in.red_flags,
                                       in.rating)
            IN  /\ r.err = NoError
                /\ Len(r.due_diligence) = Len(due_diligence) + 1
                /\ SubSeq(r.due_diligence, 1, Len(due_diligence))
                     = due_diligence

(* two reports of one deal in one category are stored *)
C20_Witness ==
    /\ Returned("add_due_diligence")
    /\ Len(due_diligence) = 2
    /\ due_diligence[1].deal_id = due_diligence[2].deal_id
    /\ due_diligence[1].category = due_diligence[2].category

----------------------------------------------------------------------------
(* what a get_deal_details on another connection sees of deal d *)
Seen(d) == get_deal_details(d).ret

(* the stage change the call c logs *)
ChangeOf(c) ==
    [deal_id |-> c.deal_id, old_stage |-> c.old_stage,
     new_stage |-> c.new_stage, changed_by |-> c.by, reason |-> c.reason]

(* C17 as stated: while an advance_stage or pass_deal is between its UPDATE
   and its INSERT, a reader sees the deal in the call's new stage (and no
   stage change for it yet). *)
C17_NewStageSeenBeforeEvent ==
    \A w \in Writers :
        conns[w].pc = "updated" /\ conns[w].op \in StageOps =>
            Seen(conns[w].deal_id).deal.stage = conns[w].new_stage

(* C17, amended: the UPDATE and the INSERT of advance_stage and pass_deal
   are two statements of one transaction. In every state of the runs of two
   connections a reader sees every deal in the new stage of the last stage
   change recorded for it, or in awareness when none is recorded; a step of
   such a call other than its commit, its interruption included, leaves the
   committed rows as they are, and its commit writes the stage and the
   stage change together. *)
C17_StageWritesAtomic ==
    /\ [](\A d \in DOMAIN deals :
             LET history == Seen(d).stage_history
             IN  Seen(d).deal.stage =
                   IF history = << >> THEN "awareness"
                   ELSE history[Len(history)].new_stage)
    /\ [][\A w \in Writers :
             conns[w].op \in StageOps /\ conns'[w] # conns[w] =>
               IF conns'[w].pc = "closed" /\ last'.err = NoError
               THEN /\ deals'[conns[w].deal_id].stage = conns[w].new_stage
                    /\ stage_changes' =
                          Append(stage_changes, ChangeOf(conns[w]))
               ELSE Tables' = Tables]_vars

(* a reader has looked while a call is between its UPDATE and its INSERT,
   and the committed stage is not the call's new stage *)
C17_Witness ==
    /\ Returned("get_deal_details")
    /\ \E w \in Writers :
          /\ conns[w].pc = "updated"
          /\ conns[w].op \in StageOps
          /\ deals[conns[w].deal_id].stage # conns[w].new_stage
          /\ deals[conns[w].deal_id].stage = conns[w].old_stage

----------------------------------------------------------------------------
(* C18: in the runs of two connections, a call in progress can take its
   next statement, or the connection that holds the write lock can take its
   own and free it; and every call that reaches its commit returns without
   an error, whatever the other connection has committed since the call
   read the deal: the commit of an advance_stage or pass_deal leaves the
   deal in that call's new stage and appends that call's stage change to the
   stage changes, and the commit of a score_deal leaves the deal with that
   call's score and returns it. *)
StepOf(w) == ExecUpdate(w) \/ ExecInsert(w) \/ Commit(w)

C18_LastWriteWins ==
    /\ [](\A w \in Writers :
             conns[w].pc # "closed" =>
               \/ ENABLED StepOf(w)
               \/ \E v \in Writers \ {w} :
                     /\ conns[v].pc \in {"updated", "inserted"}
                     /\ ENABLED StepOf(v))
    /\ [][\A w \in Writers :
             /\ conns[w].pc # "closed"
             /\ conns'[w].pc = "closed"
             /\ last'.err # Interrupted
             =>
             LET c == conns[w]
             IN  /\ last'.op = c.op
                 /\ last'.err = NoError
                 /\ c.op \in StageOps =>
                       /\ deals'[c.deal_id].stage = c.new_stage
                       /\ stage_changes' = Append(stage_changes, ChangeOf(c))
                 /\ c.op = "score_deal" =>
                       /\ deals'[c.deal_id].score = c.score
                       /\ last'.ret = c.score
                       /\ stage_changes' = stage_changes]_vars

(* two stage changes that both read the deal in awareness have both been
   committed: the deal is in the stage of the second, not of the first *)
C18_Witness ==
    /\ \A w \in Writers : conns[w].pc = "closed"
    /\ last.op \in StageOps
    /\ last.err = NoError
    /\ Len(stage_changes) = 2
    /\ stage_changes[1].old_stage = "awareness"
    /\ stage_changes[2].old_stage = "awareness"
    /\ stage_changes[1].new_stage \notin
          {"awareness", stage_changes[2].new_stage}
    /\ deals[1].stage = stage_changes[2].new_stage

----------------------------------------------------------------------------
(* C21: in every state of the lifecycle runs, where a call ends before the
   next begins, the stage history get_deal_details gives for a deal is a
   chain: a deal without stage changes is in awareness; otherwise the first
   change's old_stage is awareness, every later change's old_stage is the
   new_stage of the change before it, and the last change's new_stage is the
   deal's stage. *)
C21_StageHistoryChain ==
    \A d \in DOMAIN deals :
        LET history == Seen(d).stage_history
        IN  IF history = << >> THEN Seen(d).deal.stage = "awareness"
            ELSE /\ history[1].old_stage = "awareness"
                 /\ \A i \in 2..Len(history) :
                       history[i].old_stage = history[i - 1].new_stage
                 /\ history[Len(history)].new_stage = Seen(d).deal.stage

(* a deal passed on and then advanced out of passed *)
C21_Witness ==
    /\ Returned("advance_stage")
    /\ LET history == Seen(last.deal_id).stage_history
       IN  /\ Len(history) = 2
           /\ history[1].new_stage = "passed"
           /\ history[2].old_stage = "passed"
           /\ history[2].new_stage = "term_sheet"
           /\ deals[last.deal_id].stage = "term_sheet"

----------------------------------------------------------------------------
(* C22: a new deal has score 0; a step that is a returning score_deal for a
   deal leaves that deal with the score of the reports it has, returns it,
   and leaves the scores of the other deals as they are; every other step
   leaves every deal's score as it is. So in every state a deal's score is
   the score of the reports it had at its last score_deal, which are the
   first k of its reports for some k, and 0 when it had none or was never
   scored. *)
ScoreOfDeal(d) == ScoreOfReports(RowsOf(due_diligence, d))

C22_ScoreRefreshedByScoreDealOnly ==
    /\ [](\A d \in DOMAIN deals :
             LET reports == RowsOf(due_diligence, d)
             IN  \E k \in 0..Len(reports) :
                    deals[d].score = ScoreOfReports(SubSeq(reports, 1, k)))
    /\ [][/\ \A d \in DOMAIN deals' \ DOMAIN deals : deals'[d].score = 0
          /\ \A d \in DOMAIN deals :
                IF last'.op = "score_deal" /\ last'.err = NoError
                   /\ last'.deal_id = d
                THEN /\ deals'[d].score = ScoreOfDeal(d)'
                     /\ last'.ret = deals'[d].score
                     /\ due_diligence' = due_diligence
                ELSE deals'[d].score = deals[d].score]_vars

(* a deal scored with one report and given a second: read back, its score is
   still the score of the first report, not of the two *)
C22_Witness ==
    /\ Returned("deal_summary_text")
    /\ LET reports == RowsOf(due_diligence, last.deal_id)
       IN  /\ Len(reports) = 2
           /\ deals[last.deal_id].score
                = ScoreOfReports(SubSeq(reports, 1, 1))
           /\ deals[last.deal_id].score # ScoreOfReports(reports)

====
